---------------------------- MODULE Spec2Model ----------------------------
(***************************************************************************)
(* Flight Tracker: the HTTP handlers that write flight records to Azure    *)
(* Blob Storage and read them back.                                        *)
(*                                                                         *)
(*   createFnKey  packages/dashboard/api/flights-create/index.js           *)
(*   createFnAad  the Azure AD variant of flights-create (unnamed/part_000)*)
(*   createNext   pages/api/flights/create.ts, generated by                *)
(*                scripts/create-hello-world-dashboard.sh                  *)
(*   listFnAad    packages/dashboard/api/flights-list/index.js             *)
(*   listFnKey    the shared-key variant of flights-list (unnamed/part_001)*)
(*   listNext     pages/api/flights/list.ts, generated by the same script  *)
(*   queryRLS     the /api/flights/list route with row-level security of   *)
(*                docs/QUERY_EXAMPLES.md                                   *)
(*                                                                         *)
(* A handler runs as a sequence of steps, one per awaited object-store     *)
(* call; the code between two awaits runs with the step that precedes it.  *)
(*                                                                         *)
(* And scripts/verify-azure-setup.sh, the script that checks the Azure     *)
(* resources and reports by its exit code (VerifySpec).                    *)
(***************************************************************************)
EXTENDS Integers, Sequences, FiniteSets, TLC

\* ------------------------------------------------------------------ bounds
\* Requests started plus administrative store operations, per behaviour.
MaxOps == 2
\* Milliseconds that pass, at most, after the initial state.
MaxTime == 1
\* Runs of toggle-shared-key.sh, one after the other.
MaxRuns == 3
\* Clicks on the buttons of the dashboard page.
MaxClicks == 2

\* ------------------------------------------------------------- JS values
\* The value of a property a JSON object does not carry.
Undefined == "undefined"

\* Milliseconds per UTC day of the model clock: Date#getUTCDate changes every
\* DayLen ticks.
DayLen == 2

T10 == "2024-11-12T10:00:00Z"
T11 == "2024-11-12T11:00:00Z"

\* new Date(s).getTime(): the epoch value of an ISO-8601 string, NaN otherwise.
NaN == 0 - 1
getTime(s) ==
    IF s = T10 THEN 10
    ELSE IF s = T11 THEN 11
    ELSE NaN

\* export type FlightStatus
FlightStatus ==
    {"not_started", "running", "pending", "pending_successful", "successful",
     "churn", "failure"}

\* The properties of a flight the handlers and the queries read.
KeyOrder == <<"flightId", "status", "createdAt", "pilot", "teamId", "orgId">>
Keys == {KeyOrder[i] : i \in 1..Len(KeyOrder)}

Flight(id, st, at, who, team, org) ==
    [flightId |-> id, status |-> st, createdAt |-> at, pilot |-> who,
     teamId |-> team, orgId |-> org]

\* ---------------------------------------------------------------- JSON text
\* Text is a sequence of tokens: braces, commas, line feeds, indentation, one
\* token per "key":value member, and text that is no JSON at all.
Tok(k, v) == [k |-> k, v |-> v]
LBrace == Tok("{", "")
RBrace == Tok("}", "")
Comma == Tok(",", "")
LF == Tok("\n", "")
Indent == Tok("  ", "")
Garbage == Tok("#", "")

IsMember(t) == t.k \in Keys

\* The keys JSON.stringify writes: those whose value is not undefined.
PresentKeys(flight) ==
    SelectSeq(KeyOrder, LAMBDA k : flight[k] # Undefined)

RECURSIVE JoinMembers(_, _, _)
JoinMembers(flight, ks, sep) ==
    IF ks = <<>> THEN <<>>
    ELSE IF Len(ks) = 1 THEN <<Tok(ks[1], flight[ks[1]])>>
    ELSE <<Tok(ks[1], flight[ks[1]])>> \o sep \o JoinMembers(flight, Tail(ks), sep)

\* JSON.stringify(flight): one line, no white space.
Stringify(flight) ==
    <<LBrace>> \o JoinMembers(flight, PresentKeys(flight), <<Comma>>) \o <<RBrace>>

\* JSON.stringify(flight, null, 2): one member per line, indented.
StringifyPretty(flight) ==
    IF PresentKeys(flight) = <<>> THEN <<LBrace, RBrace>>
    ELSE <<LBrace, LF, Indent>>
         \o JoinMembers(flight, PresentKeys(flight), <<Comma, LF, Indent>>)
         \o <<LF, RBrace>>

\* content.split('\n')
RECURSIVE Split(_)
Split(text) ==
    IF \A i \in 1..Len(text) : text[i] # LF THEN <<text>>
    ELSE LET i == CHOOSE j \in 1..Len(text) :
                      text[j] = LF /\ \A h \in 1..(j - 1) : text[h] # LF
         IN <<SubSeq(text, 1, i - 1)>> \o Split(SubSeq(text, i + 1, Len(text)))

\* line.trim(): the line without its white space (white space stands only at
\* the ends of a line in the texts the model writes).
Trim(line) == SelectSeq(line, LAMBDA t : t # Indent)

\* Whether JSON.parse accepts the text: { member (, member)* } or {}.
Parses(text) ==
    LET s == Trim(text)
        n == Len(s)
    IN /\ n >= 2
       /\ s[1] = LBrace
       /\ s[n] = RBrace
       /\ n % 2 = IF n = 2 THEN 0 ELSE 1
       /\ \A i \in 2..(n - 1) :
              IF i % 2 = 0 THEN IsMember(s[i]) ELSE s[i] = Comma

\* JSON.parse(text) of a text it accepts; a repeated key keeps its last value.
Parse(text) ==
    LET s == Trim(text)
        at(k) == {i \in 1..Len(s) : s[i].k = k}
        last(k) == CHOOSE i \in at(k) : \A j \in at(k) : j <= i
    IN [k \in Keys |-> IF at(k) = {} THEN Undefined ELSE s[last(k)].v]


\* -------------------------------------------------------------- blob names
\* `${flightId}.json`
FlatName(id) == [kind |-> "flat", day |-> 0, id |-> id, ts |-> 0]
\* `flights/${year}/${month}/${day}/${flightId}-${timestamp}.jsonl`
PartName(day, id, ts) == [kind |-> "part", day |-> day, id |-> id, ts |-> ts]
\* "flights/hello-world.jsonl", the blob the setup scripts upload
SampleName == [kind |-> "sample", day |-> 0, id |-> "hello-world", ts |-> 0]
NoName == [kind |-> "none", day |-> 0, id |-> "", ts |-> 0]

\* A flightId that is no string: the JSON array ["e1"], written as its text.
E1Array == "[\"e1\"]"

\* ${flight.flightId} in a template literal: the string itself; of an array
\* its elements joined by commas.
IdText(id) == IF id = E1Array THEN "e1" ELSE id

\* The flight ids of the model, in the order of their strings.
Ids == <<"e1", "e2", "flight-hello-world">>
IdRank(id) == CHOOSE i \in 1..Len(Ids) : Ids[i] = IdText(id)

\* name.startsWith('flights/'), name.endsWith('.jsonl')
StartsWithFlights(name) == name.kind \in {"part", "sample"}
EndsWithJsonl(name) == name.kind \in {"part", "sample"}

\* The order of the names as strings: "e1.json" < "flights/2024/..." <
\* "flights/hello-world.jsonl"; flat names by id; partitioned names by day,
\* then by `${flightId}-${timestamp}`.
KindRank(name) ==
    IF name.kind = "flat" THEN 1 ELSE IF name.kind = "part" THEN 2 ELSE 3
NameLess(a, b) ==
    \/ KindRank(a) < KindRank(b)
    \/ /\ KindRank(a) = KindRank(b)
       /\ \/ a.day < b.day
          \/ a.day = b.day /\ IdRank(a.id) < IdRank(b.id)
          \/ a.day = b.day /\ a.id = b.id /\ a.ts < b.ts

\* The names of a set, ascending.
RECURSIVE SortNames(_)
SortNames(S) ==
    IF S = {} THEN <<>>
    ELSE LET m == CHOOSE a \in S : \A b \in S \ {a} : NameLess(a, b)
         IN <<m>> \o SortNames(S \ {m})

\* now.getUTCFullYear() / getUTCMonth() / getUTCDate(): the UTC day of a time.
UTCDay(now) == now \div DayLen

\* ------------------------------------------------------------------- inputs
Methods == {"POST", "GET"}

F1 == Flight("e1", "successful", T10, "alice", "eng", "acme")
F2 == Flight("e2", "failure", T11, "bob", "ops", "acme")
\* the id of F2 again with other content: the createdAt of F1 under a greater id
F4 == Flight("e2", "successful", T10, "alice", Undefined, Undefined)
\* no flightId, no status, no createdAt
F5 == Flight(Undefined, "successful", T10, "alice", "eng", "acme")
F6 == Flight("e1", Undefined, T10, "alice", "eng", "acme")
F8 == Flight("e1", "running", Undefined, "bob", "ops", "acme")
\* a status that is no FlightStatus, and a flightId that is an array
F9 == Flight(E1Array, "cancelled", T11, "bob", "ops", "acme")
NoFlight == [k \in Keys |-> Undefined]

\* req.body of a create request: absent, or a JSON object (F2 and F4 are in
\* the store from the start).
Bodies ==
    {[hasBody |-> TRUE, flight |-> f] : f \in {F1, F5, F6, F8, F9}}
    \cup {[hasBody |-> FALSE, flight |-> NoFlight]}

\* The sample flight of scripts/setup-azure.sh.
Sample == Flight("flight-hello-world", "successful", T11, Undefined, Undefined, Undefined)

\* What an administrator uploads as flights/hello-world.jsonl: the sample line,
\* or the sample line and a line that is no JSON.
AdminTexts ==
    {Stringify(Sample) \o <<LF>>,
     Stringify(Sample) \o <<LF, Garbage, LF>>}

\* The callers of the RLS route and the teams of their JWT.
Users == {"alice", "bob", "root"}
TeamsOf(login) ==
    IF login = "root" THEN {"flight-tracker-admins"}
    ELSE IF login = "bob" THEN {"flight-tracker-contributors", "eng"}
    ELSE {}
OrgOf(login) == "acme"

CreateHandlers == {"createFnKey", "createFnAad", "createNext"}
ListHandlers == {"listFnAad", "listFnKey", "listNext"}

\* -------------------------------------------------------------------- state
VARIABLES
    env,        \* process.env: whether AZURE_STORAGE_ACCOUNT / AZURE_STORAGE_KEY are set
    container,  \* whether the blob container exists
    blobs,      \* the blobs of the container: name -> [content, lastModified]
    clock,      \* Date.now() of the servers, in milliseconds
    ops,        \* requests started and administrative operations so far
    version,    \* history: the number of changes made to the store so far
    req,        \* the requests: per slot, the handler's position, locals and response
    step,       \* verify-azure-setup.sh: the function main calls next, or how it exited
    CHECKS_PASSED,
    CHECKS_FAILED,
    CHECKS_WARNING,
    exitCode,   \* the exit status of verify-azure-setup.sh, NoExit while it runs
    toggle,     \* toggle-shared-key.sh and the account setting it changes
    page        \* the dashboard page: its React state and its requests in flight

\* The state of the handlers and their store, and the state of the script.
handlers == <<env, container, blobs, clock, ops, version, req>>
script == <<step, CHECKS_PASSED, CHECKS_FAILED, CHECKS_WARNING, exitCode>>
\* What no handler touches.
outside == <<script, toggle, page>>
vars == <<handlers, script, toggle, page>>

Slots == {"r1", "r2"}

\* ---------------------------------------------------------------- responses
ErrorBody(msg) == [error |-> msg]
NoRes == [status |-> 0, body |-> ErrorBody("")]
Response(status, body) == [status |-> status, body |-> body]

Idle ==
    [pc |-> "idle", handler |-> "", method |-> "", hasBody |-> FALSE,
     flight |-> NoFlight, user |-> "", now |-> 0, blobName |-> NoName,
     content |-> <<>>, pending |-> <<>>, flights |-> <<>>, parseErrors |-> 0,
     calls |-> 0, err |-> "", v0 |-> 0, clean |-> TRUE, made |-> FALSE,
     raced |-> FALSE, auth |-> "", res |-> NoRes]

\* The request has answered. History, kept for the list requests: v0 is the
\* store's version when the request started, and `clean` whether the store
\* still had that version when it answered (v is the version then). History,
\* kept for the create requests: `made` is whether the request's
\* createIfNotExists created the container, and `raced` whether another
\* request wrote the blob this request writes while this request was running.
Done(rec, res, v) ==
    [rec EXCEPT !.pc = "done", !.res = res,
                !.clean = (rec.handler \in ListHandlers => rec.v0 = v)]

\* ------------------------------------------------------------ configuration
\* if (!accountName || !accountKey)  /  if (!accountName)
ConfigMissing(h) ==
    IF h \in {"createFnKey", "listFnKey"} THEN ~env.account \/ ~env.key
    ELSE IF h \in {"createFnAad", "listFnAad"} THEN ~env.account
    ELSE FALSE
ConfigError(h) ==
    IF h \in {"createFnKey", "listFnKey"} THEN "Storage not configured"
    ELSE "Storage account not configured"

\* Whether the client the handler builds can reach the store at all: the
\* Next.js routes and the RLS route put the two settings into the connection
\* string (the SAS token) unchecked; the Functions handlers have checked them,
\* and the Azure AD variants use DefaultAzureCredential without a key.
StoreOk(h) ==
    h \in {"createNext", "listNext", "queryRLS"} => env.account /\ env.key

\* The client the handler builds. The Azure AD variants: if (!accountKey)
\* new BlobServiceClient(url, new DefaultAzureCredential()), else
\* BlobServiceClient.fromConnectionString(...) with the key; all the others
\* build the connection string with the key.
AuthOf(h) ==
    IF h \in {"createFnAad", "listFnAad"} /\ ~env.key THEN "aad" ELSE "sharedKey"

\* The object store: what the calls return and do.
Put(name, text) ==
    [n \in DOMAIN blobs \cup {name} |->
        IF n = name THEN [content |-> text, lastModified |-> clock] ELSE blobs[n]]
Remove(name) == [n \in DOMAIN blobs \ {name} |-> blobs[n]]

\* containerClient.listBlobsFlat(): the names in lexicographic order.
listBlobsFlat == SortNames(DOMAIN blobs)
\* containerClient.listBlobsFlat({ prefix: 'flights/' })
listBlobsFlatPrefix == SortNames({n \in DOMAIN blobs : StartsWithFlights(n)})

\* ----------------------------------------------------------- create handlers
Falsy(v) == v = Undefined \/ v = ""

\* Mutant of MissingRequired: && written for ||.
MissingRequiredAnd(flight) == Falsy(flight.flightId) /\ Falsy(flight.status)

\* if (!flight.flightId || !flight.status)
MissingRequired(flight) == Falsy(flight.flightId) \/ Falsy(flight.status)

\* Mutant of CreateEarly: the configuration is read before the method is
\* looked at.
CreateEarlyConfigFirst(h, method, body) ==
    IF ConfigMissing(h) THEN Response(500, ErrorBody(ConfigError(h)))
    ELSE IF method # "POST" THEN Response(405, ErrorBody("Method not allowed"))
    ELSE IF ~body.hasBody /\ h # "createNext"
        THEN Response(500, ErrorBody("Cannot read properties of undefined"))
    ELSE IF MissingRequired(body.flight)
        THEN Response(400, ErrorBody("Missing required fields"))
    ELSE NoRes

\* Mutant of CreateEarly: the body is validated before the configuration is
\* read.
CreateEarlyBodyFirst(h, method, body) ==
    IF method # "POST" THEN Response(405, ErrorBody("Method not allowed"))
    ELSE IF ~body.hasBody /\ h # "createNext"
        THEN Response(500, ErrorBody("Cannot read properties of undefined"))
    ELSE IF MissingRequired(body.flight)
        THEN Response(400, ErrorBody("Missing required fields"))
    ELSE IF ConfigMissing(h) THEN Response(500, ErrorBody(ConfigError(h)))
    ELSE NoRes

\* The response a create handler gives before any store call, NoRes if none.
\* Method first; then, in the Functions handlers, the configuration; then the
\* body. In the Functions handlers req.body of a request without body is
\* undefined, and reading flight.flightId throws a TypeError that the catch
\* turns into a 500; in create.ts the body parser of Next.js yields a value
\* without properties, which fails the field check.
CreateEarly(h, method, body) ==
    IF method # "POST" THEN Response(405, ErrorBody("Method not allowed"))
    ELSE IF ConfigMissing(h) THEN Response(500, ErrorBody(ConfigError(h)))
    ELSE IF ~body.hasBody /\ h # "createNext"
        THEN Response(500, ErrorBody("Cannot read properties of undefined"))
    ELSE IF MissingRequired(body.flight)
        THEN Response(400, ErrorBody("Missing required fields"))
    ELSE NoRes

\* const blobName = ... of each create handler
BlobNameOf(h, flight, now) ==
    IF h = "createNext" THEN PartName(UTCDay(now), IdText(flight.flightId), now)
    ELSE FlatName(IdText(flight.flightId))

\* Mutant of ContentOf: create.ts writes the indented form of the Functions
\* handlers.
ContentOfPretty(h, flight) == StringifyPretty(flight)

\* const content = ... of each create handler
ContentOf(h, flight) ==
    IF h = "createNext" THEN Stringify(flight) \o <<LF>>
    ELSE StringifyPretty(flight)

\* The slot a new invocation takes: one that never ran, r1 before r2, or else
\* the place of a request that has answered.
Free(r) ==
    \/ req[r].pc = "idle" /\ \A q \in Slots : req[q].pc = "idle" => r = "r1" \/ q = "r2"
    \/ req[r].pc = "done" /\ \A q \in Slots : req[q].pc # "idle"

\* The requests sent to a create handler: a POST of every body, and a GET,
\* without body to the Azure AD variant of flights-create and with a body to
\* the others. The record whose id is an array goes to create.ts only (it is
\* also the record whose status is no FlightStatus: all three handlers test
\* id and status in the same way), and the second record with id e1 to
\* create.ts and to one of the two flights-create variants.
CreateInputs(h) ==
    {x \in Methods \X Bodies :
        /\ x[1] = "POST" \/ x[2].flight = IF h = "createFnAad" THEN NoFlight ELSE F1
        /\ x[2].flight = F8 => h # "createFnAad"
        /\ x[2].flight = F9 => h = "createNext"}

StartCreate(r) ==
    /\ Free(r)
    /\ ops < MaxOps
    /\ \E h \in CreateHandlers : \E x \in CreateInputs(h) :
          LET base == [Idle EXCEPT !.handler = h, !.method = x[1],
                                   !.hasBody = x[2].hasBody, !.flight = x[2].flight,
                                   !.now = IF h = "createNext" THEN clock ELSE 0]
              early == CreateEarly(h, x[1], x[2])
          IN req' = [req EXCEPT ![r] =
                 IF early # NoRes THEN Done(base, early, version)
                 ELSE IF h = "createNext"
                     THEN [base EXCEPT !.pc = "upload", !.auth = AuthOf(h),
                                       !.blobName = BlobNameOf(h, x[2].flight, clock),
                                       !.content = ContentOf(h, x[2].flight)]
                 ELSE [base EXCEPT !.pc = "createIfNotExists", !.auth = AuthOf(h)]]
    /\ ops' = ops + 1
    /\ UNCHANGED <<env, container, blobs, clock, version, outside>>

\* Mutant of Fail: the failed call is made again instead of being reported.
FailRetry(rec, msg, v) == [rec EXCEPT !.calls = @ + 1, !.err = msg]

\* body of the catch block: { error: error.message }, in the Functions list
\* handlers { error: error.message, stack: error.stack }.
CatchBody(h, msg) ==
    IF h \in {"listFnAad", "listFnKey"} THEN [error |-> msg, stack |-> "Error: " \o msg]
    ELSE ErrorBody(msg)

\* Mutant of Fail: the answer carries the status of the store's error.
FailStoreStatus(rec, msg, v) ==
    Done([rec EXCEPT !.calls = @ + 1, !.err = msg],
         Response(IF msg = "StoreUnavailable" THEN 503 ELSE 500,
                  CatchBody(rec.handler, msg)), v)

\* The catch block of every handler: 500 with error.message.
Fail(rec, msg, v) ==
    Done([rec EXCEPT !.calls = @ + 1, !.err = msg],
         Response(500, CatchBody(rec.handler, msg)), v)

\* await containerClient.createIfNotExists()
CreateIfNotExists(r) ==
    /\ req[r].pc = "createIfNotExists"
    /\ \/ /\ StoreOk(req[r].handler)
          /\ container' = TRUE
          /\ version' = IF container THEN version ELSE version + 1
          /\ LET rec == req[r]
             IN req' = [req EXCEPT ![r] =
                    [rec EXCEPT !.pc = "upload", !.calls = @ + 1,
                                !.made = ~container,
                                !.blobName = BlobNameOf(rec.handler, rec.flight, rec.now),
                                !.content = ContentOf(rec.handler, rec.flight)]]
       \/ /\ req' = [req EXCEPT ![r] = Fail(@, "StoreUnavailable", version)]
          /\ UNCHANGED <<container, version>>
    /\ UNCHANGED <<env, blobs, clock, ops, outside>>

\* Mutant of CreateOk: create.ts answers with the blob name of the Functions
\* handlers.
CreateOkFlat(rec) ==
    IF rec.handler = "createNext"
    THEN Response(201, [success |-> TRUE, flightId |-> rec.flight.flightId,
                        blobName |-> FlatName(rec.flight.flightId)])
    ELSE Response(200, [success |-> TRUE, blobName |-> rec.blobName])

\* The body of a successful create.
CreateOk(rec) ==
    IF rec.handler = "createNext"
    THEN Response(201, [success |-> TRUE, flightId |-> rec.flight.flightId,
                        blobName |-> rec.blobName])
    ELSE Response(200, [success |-> TRUE, blobName |-> rec.blobName])

\* Mutant of upload: a blob that exists is left as it is (the first writer wins).
uploadIfAbsent(name, text) ==
    IF name \in DOMAIN blobs THEN blobs ELSE Put(name, text)

\* What blockBlobClient.upload(content, content.length) leaves in the store.
upload(name, text) == Put(name, text)

\* The request is a create between its start and its answer, and the blob it
\* writes or will write has this name.
Targets(rec, name) ==
    /\ rec.pc \in {"createIfNotExists", "upload"}
    /\ BlobNameOf(rec.handler, rec.flight, rec.now) = name

\* await blockBlobClient.upload(content, content.length)
Upload(r) ==
    /\ req[r].pc = "upload"
    /\ \/ /\ StoreOk(req[r].handler)
          /\ container
          /\ blobs' = upload(req[r].blobName, req[r].content)
          /\ version' = version + 1
          /\ req' = [q \in Slots |->
                 IF q = r
                     THEN Done([req[r] EXCEPT !.calls = @ + 1], CreateOk(req[r]),
                               version + 1)
                 ELSE IF Targets(req[q], req[r].blobName)
                     THEN [req[q] EXCEPT !.raced = TRUE]
                 ELSE req[q]]
       \/ /\ req' = [req EXCEPT ![r] =
                 Fail(@, IF StoreOk(@.handler) /\ ~container
                         THEN "ContainerNotFound" ELSE "StoreUnavailable", version)]
          /\ UNCHANGED <<blobs, version>>
    /\ UNCHANGED <<env, container, clock, ops, outside>>

\* ------------------------------------------------------------- list handlers
\* Mutant of compareFn: a - b written for b - a.
compareFnAscending(a, b) ==
    LET ta == getTime(a.createdAt)
        tb == getTime(b.createdAt)
    IN IF ta = NaN \/ tb = NaN THEN 0 ELSE ta - tb

\* Mutant of compareFn: the direction depends on the time of the call.
compareFnByClock(a, b) ==
    LET ta == getTime(a.createdAt)
        tb == getTime(b.createdAt)
    IN IF ta = NaN \/ tb = NaN THEN 0
       ELSE IF clock % 2 = 0 THEN tb - ta ELSE ta - tb

\* (a, b) => new Date(b.createdAt).getTime() - new Date(a.createdAt).getTime(),
\* as Array.prototype.sort reads it: a NaN result counts as +0.
compareFn(a, b) ==
    LET ta == getTime(a.createdAt)
        tb == getTime(b.createdAt)
    IN IF ta = NaN \/ tb = NaN THEN 0 ELSE tb - ta

\* One step of the insertion sort: x goes behind the last element that does
\* not have to follow it.
Insert(sorted, x) ==
    LET keep == {i \in 1..Len(sorted) : compareFn(sorted[i], x) <= 0}
        p == IF keep = {} THEN 0 ELSE CHOOSE i \in keep : \A j \in keep : j <= i
    IN SubSeq(sorted, 1, p) \o <<x>> \o SubSeq(sorted, p + 1, Len(sorted))

\* flights.sort(compareFn): stable, as ECMAScript 2019 requires.
RECURSIVE sortFrom(_, _)
sortFrom(sorted, rest) ==
    IF rest = <<>> THEN sorted ELSE sortFrom(Insert(sorted, Head(rest)), Tail(rest))
sort(flights) == sortFrom(<<>>, flights)

\* content.split('\n').filter(line => line.trim())
Lines(text) == SelectSeq(Split(text), LAMBDA line : Trim(line) # <<>>)

\* Mutant of ParsedOf: every line is pushed, parsed or not.
ParsedOfAll(text) ==
    [i \in 1..Len(Lines(text)) |-> Parse(Lines(text)[i])]

\* The try { flights.push(JSON.parse(line)) } catch of list.ts, over the lines of
\* one blob: the objects pushed, and the number of lines the catch logged.
ParsedOf(text) ==
    LET good == SelectSeq(Lines(text), Parses)
    IN [i \in 1..Len(good) |-> Parse(good[i])]
ErrorsOf(text) == Len(Lines(text)) - Len(SelectSeq(Lines(text), Parses))

\* The names the for-await loop of list.ts still has to download: the loop
\* passes over a name that does not end in .jsonl without a store call.
RECURSIVE SkipOther(_)
SkipOther(names) ==
    IF names = <<>> \/ EndsWithJsonl(Head(names)) THEN names
    ELSE SkipOther(Tail(names))

\* res.status(200).json({ flights: flights.sort(...), count: flights.length })
ListNextOk(rec) ==
    Response(200, [flights |-> sort(rec.flights), count |-> Len(rec.flights)])

\* list.ts after a store call: on to the next download, or the response.
Advance(rec, v) ==
    LET left == SkipOther(rec.pending)
        at == [rec EXCEPT !.pending = left]
    IN IF left = <<>> THEN Done(at, ListNextOk(at), v)
       ELSE [at EXCEPT !.pc = "download"]

\* flights.push({ name, size, lastModified }) of the Functions list handlers
Entry(name) ==
    [name |-> name, size |-> Len(blobs[name].content),
     lastModified |-> blobs[name].lastModified]
ListFnOk(names) ==
    Response(200, [flights |-> [i \in 1..Len(names) |-> Entry(names[i])],
                   count |-> Len(names)])

\* The response a list handler gives before any store call, NoRes if none.
ListEarly(h, method) ==
    IF h = "listNext"
    THEN IF method # "GET" THEN Response(405, ErrorBody("Method not allowed"))
         ELSE NoRes
    ELSE IF ConfigMissing(h) THEN Response(500, ErrorBody(ConfigError(h)))
    ELSE NoRes

\* The Functions list handlers never read req.
ListInputs ==
    {x \in ListHandlers \X Methods : x[1] = "listNext" \/ x[2] = "GET"}

StartList(r) ==
    /\ Free(r)
    /\ ops < MaxOps
    /\ \E x \in ListInputs :
          LET base == [Idle EXCEPT !.handler = x[1], !.method = x[2],
                                   !.v0 = version]
              early == ListEarly(x[1], x[2])
          IN req' = [req EXCEPT ![r] =
                 IF early # NoRes THEN Done(base, early, version)
                 ELSE [base EXCEPT !.pc = "listBlobs", !.auth = AuthOf(x[1])]]
    /\ ops' = ops + 1
    /\ UNCHANGED <<env, container, blobs, clock, version, outside>>

\* for await (const blob of containerClient.listBlobsFlat(...)): the listing
ListBlobs(r) ==
    /\ req[r].pc = "listBlobs"
    /\ \/ /\ StoreOk(req[r].handler)
          /\ container
          /\ LET rec == [req[r] EXCEPT !.calls = @ + 1]
             IN req' = [req EXCEPT ![r] =
                    IF rec.handler = "listNext"
                    THEN Advance([rec EXCEPT !.pending = listBlobsFlatPrefix], version)
                    ELSE Done(rec, ListFnOk(listBlobsFlat), version)]
       \/ req' = [req EXCEPT ![r] =
              Fail(@, IF StoreOk(@.handler) /\ ~container
                      THEN "ContainerNotFound" ELSE "StoreUnavailable", version)]
    /\ UNCHANGED <<env, container, blobs, clock, ops, version, outside>>

\* await blobClient.download(0), streamToString, and the parse of the lines
Download(r) ==
    /\ req[r].pc = "download"
    /\ LET rec == req[r]
           name == Head(rec.pending)
       IN \/ /\ StoreOk(rec.handler)
             /\ container
             /\ name \in DOMAIN blobs
             /\ req' = [req EXCEPT ![r] =
                    Advance([rec EXCEPT
                        !.calls = @ + 1,
                        !.pending = Tail(@),
                        !.flights = @ \o ParsedOf(blobs[name].content),
                        !.parseErrors = @ + ErrorsOf(blobs[name].content)], version)]
          \/ req' = [req EXCEPT ![r] =
                 Fail(rec, IF StoreOk(rec.handler) /\ container /\ name \notin DOMAIN blobs
                           THEN "BlobNotFound" ELSE "StoreUnavailable", version)]
    /\ UNCHANGED <<env, container, blobs, clock, ops, version, outside>>

\* ------------------------------------------------- the route with RLS (docs)
\* lib/permissions.ts getPermissions(user).scope
getPermissions(login) ==
    IF "flight-tracker-admins" \in TeamsOf(login) THEN "all"
    ELSE IF "flight-tracker-contributors" \in TeamsOf(login) THEN "team"
    ELSE "own"

\* Mutant of buildRLSFilter: the case 'own' adds no clause.
buildRLSFilterNoOwn(login, scope, row) ==
    IF scope = "team" THEN row.teamId # Undefined /\ row.teamId \in TeamsOf(login)
    ELSE IF scope = "org" THEN row.orgId # Undefined /\ row.orgId = OrgOf(login)
    ELSE TRUE

\* buildRLSFilter(user, permissions), as the predicate its WHERE clause is on a
\* row: a comparison with a missing (NULL) value is not true.
buildRLSFilter(login, scope, row) ==
    IF scope = "own" THEN row.pilot # Undefined /\ row.pilot = login
    ELSE IF scope = "team" THEN row.teamId # Undefined /\ row.teamId \in TeamsOf(login)
    ELSE IF scope = "org" THEN row.orgId # Undefined /\ row.orgId = OrgOf(login)
    ELSE TRUE

\* The LIMIT of the query: 100 rows in docs/QUERY_EXAMPLES.md, scaled here to
\* the number of records the stores of the model hold.
Limit == 2

\* read_json('.../flights/**/*.jsonl'): the lines of the blobs under flights/.
RECURSIVE ReadJson(_)
ReadJson(names) ==
    IF names = <<>> THEN <<>>
    ELSE Lines(blobs[Head(names)].content) \o ReadJson(Tail(names))

\* SELECT flightId, "pilot"->>'githubLogin' as pilot, status, createdAt
Select(row) ==
    [flightId |-> row.flightId, pilot |-> row.pilot, status |-> row.status,
     createdAt |-> row.createdAt]

\* ORDER BY createdAt DESC: every order of the rows that is descending by
\* createdAt (SQL leaves the order of equal rows open; a row without
\* createdAt sorts last). `left` holds the positions not yet placed.
RECURSIVE OrderBy(_, _)
OrderBy(rows, left) ==
    IF left = {} THEN {<<>>}
    ELSE LET first == {i \in left : \A j \in left :
                          getTime(rows[i].createdAt) >= getTime(rows[j].createdAt)}
         IN UNION {{<<rows[i]>> \o t : t \in OrderBy(rows, left \ {i})} : i \in first}

\* ORDER BY createdAt DESC LIMIT 100
OrderByLimit(rows) ==
    {SubSeq(s, 1, IF Len(s) < Limit THEN Len(s) ELSE Limit) :
        s \in OrderBy(rows, 1..Len(rows))}

\* const { user, permissions } = req, set by requirePermission('canReadFlights')
StartQuery(r) ==
    /\ Free(r)
    /\ ops < MaxOps
    /\ \E u \in Users :
          req' = [req EXCEPT ![r] =
              [Idle EXCEPT !.pc = "query", !.handler = "queryRLS", !.method = "GET",
                           !.user = u, !.auth = AuthOf("queryRLS")]]
    /\ ops' = ops + 1
    /\ UNCHANGED <<env, container, blobs, clock, version, outside>>

\* await db.query(`SELECT ... FROM read_json(...) ${whereClause} ORDER BY ... LIMIT 100`)
Query(r) ==
    /\ req[r].pc = "query"
    /\ LET rec == req[r]
           lines == ReadJson(listBlobsFlatPrefix)
           rows == [i \in 1..Len(lines) |-> Parse(lines[i])]
           kept == SelectSeq(rows, LAMBDA row :
                       buildRLSFilter(rec.user, getPermissions(rec.user), row))
           out == [i \in 1..Len(kept) |-> Select(kept[i])]
       IN \/ /\ StoreOk(rec.handler)
             /\ container
             /\ \A i \in 1..Len(lines) : Parses(lines[i])
             /\ \E result \in OrderByLimit(out) :
                   req' = [req EXCEPT ![r] =
                       Done([rec EXCEPT !.calls = @ + 1, !.flights = rows],
                            Response(200, [rows |-> result]), version)]
          \/ req' = [req EXCEPT ![r] =
                 Done([rec EXCEPT !.calls = @ + 1, !.err = "query failed"],
                      Response(500, ErrorBody("Internal Server Error")), version)]
    /\ UNCHANGED <<env, container, blobs, clock, ops, version, outside>>

\* --------------------------------------------------------------- environment
\* scripts/setup-azure.sh: az storage container create, then
\* az storage blob upload --name flights/hello-world.jsonl --overwrite
AdminUpload ==
    /\ ops < MaxOps
    /\ \E text \in AdminTexts : blobs' = Put(SampleName, text)
    /\ container' = TRUE
    /\ version' = version + 1
    /\ ops' = ops + 1
    /\ UNCHANGED <<env, clock, req, outside>>

\* Deletion of a blob: an administrative operation outside the handlers.
AdminDelete ==
    /\ ops < MaxOps
    /\ \E name \in DOMAIN blobs : blobs' = Remove(name)
    /\ version' = version + 1
    /\ ops' = ops + 1
    /\ UNCHANGED <<env, container, clock, req, outside>>

\* Time passes.
Tick ==
    /\ clock < DayLen + MaxTime
    /\ clock' = clock + 1
    /\ UNCHANGED <<env, container, blobs, ops, version, req, outside>>

\* ------------------------------------------- scripts/verify-azure-setup.sh
\* The script runs under `set -e`. main calls the check functions one after
\* the other and print_summary last; each function is one step here, and what
\* the Azure CLI answers is the input of the step.
NoExit == 0 - 1

\* The exit status of an az command that fails.
FailStatus == {1, 2}

REQUIRED_VARS ==
    {"AZURE_STORAGE_ACCOUNT", "AZURE_STORAGE_KEY", "AZURE_STORAGE_CONTAINER",
     "GITHUB_CLIENT_ID", "GITHUB_CLIENT_SECRET", "JWT_SECRET"}
OPTIONAL_VARS == {"AUTHORIZED_ORG", "ADMIN_TEAM", "CONTRIBUTOR_TEAM"}

B(cond) == IF cond THEN 1 ELSE 0

\* What one function does: the check_pass, check_fail and check_warn calls it
\* makes, and how it ends: it returns (by = ""), it runs `exit 1`
\* (by = "exit"), or an assignment VAR=$(az ...) outside a condition fails and
\* set -e ends the script with the status of az (by = "errexit").
Outcome(p, f, w, code, by) == [p |-> p, f |-> f, w |-> w, code |-> code, by |-> by]
Ran(p, f, w) == Outcome(p, f, w, NoExit, "")
Errexit(p, f, w) == {Outcome(p, f, w, c, "errexit") : c \in FailStatus}

ScriptInit ==
    /\ step = "check_azure_cli"
    /\ CHECKS_PASSED = 0
    /\ CHECKS_FAILED = 0
    /\ CHECKS_WARNING = 0
    /\ exitCode = NoExit

\* The effect of one function of main, with the outcomes it can have.
Call(next, outcomes) ==
    /\ \E o \in outcomes :
          /\ CHECKS_PASSED' = CHECKS_PASSED + o.p
          /\ CHECKS_FAILED' = CHECKS_FAILED + o.f
          /\ CHECKS_WARNING' = CHECKS_WARNING + o.w
          /\ exitCode' = o.code
          /\ step' = IF o.by = "" THEN next ELSE o.by
    /\ UNCHANGED <<handlers, toggle, page>>

\* `command -v az`: check_pass, or check_fail and exit 1
check_azure_cli ==
    /\ step = "check_azure_cli"
    /\ Call("check_azure_login",
            {Ran(1, 0, 0), Outcome(0, 1, 0, 1, "exit")})

\* `az account show`: the two queries and check_pass, or check_fail and exit 1
check_azure_login ==
    /\ step = "check_azure_login"
    /\ Call("check_resource_group",
            {Ran(1, 0, 0), Outcome(0, 1, 0, 1, "exit")} \cup Errexit(0, 0, 0))

check_resource_group ==
    /\ step = "check_resource_group"
    /\ Call("check_storage_account",
            {Ran(1, 0, 0), Ran(0, 1, 0)} \cup Errexit(0, 0, 0))

\* encryption (pass or warn), HTTPS only (pass or fail), TLS version (pass or
\* warn), each read by an az query that can fail
check_storage_account ==
    /\ step = "check_storage_account"
    /\ Call("check_storage_container",
            {Ran(0, 1, 0)}
            \cup Errexit(1, 0, 0)
            \cup UNION {Errexit(1 + B(e), 0, B(~e)) : e \in BOOLEAN}
            \cup UNION {Errexit(1 + B(e) + B(h), B(~h), B(~e)) : e, h \in BOOLEAN}
            \cup {Ran(1 + B(e) + B(h) + B(t), B(~h), B(~e) + B(~t)) :
                     e, h, t \in BOOLEAN})

\* `az storage container exists`, then the public access (pass or warn)
check_storage_container ==
    /\ step = "check_storage_container"
    /\ Call("check_static_web_app",
            {Ran(0, 1, 0)}
            \cup (IF container
                  THEN Errexit(1, 0, 0) \cup {Ran(1 + B(p), 0, B(~p)) : p \in BOOLEAN}
                  ELSE {}))

\* `az staticwebapp show`, three queries, the repository (pass or warn)
check_static_web_app ==
    /\ step = "check_static_web_app"
    /\ Call("check_environment_variables",
            {Ran(0, 1, 0)}
            \cup Errexit(1, 0, 0)
            \cup {Ran(1 + B(g), 0, B(~g)) : g \in BOOLEAN})

\* nothing without the web app; check_fail without settings; else one
\* check_pass or check_fail per required variable and one check_pass or
\* check_warn per optional variable
check_environment_variables ==
    /\ step = "check_environment_variables"
    /\ Call("check_application_insights",
            {Ran(0, 0, 0), Ran(0, 1, 0)}
            \cup Errexit(0, 0, 0)
            \cup {Ran(Cardinality(S) + Cardinality(O),
                      Cardinality(REQUIRED_VARS \ S),
                      Cardinality(OPTIONAL_VARS \ O)) :
                     S \in SUBSET REQUIRED_VARS, O \in SUBSET OPTIONAL_VARS})

check_application_insights ==
    /\ step = "check_application_insights"
    /\ Call("check_connectivity",
            {Ran(1, 0, 0), Ran(0, 0, 1)} \cup Errexit(1, 0, 0))

\* nothing without the web app or without curl; else pass or warn by HTTP code
check_connectivity ==
    /\ step = "check_connectivity"
    /\ Call("print_summary",
            {Ran(0, 0, 0), Ran(1, 0, 0), Ran(0, 0, 1)} \cup Errexit(0, 0, 0))

\* Mutant of SummaryCode: warnings count as failures.
SummaryCodeStrict(failed, warnings) ==
    IF failed = 0 /\ warnings = 0 THEN 0 ELSE 1

\* The if / elif / else of print_summary.
SummaryCode(failed, warnings) ==
    IF failed = 0 /\ warnings = 0 THEN 0
    ELSE IF failed = 0 THEN 0
    ELSE 1

print_summary ==
    /\ step = "print_summary"
    /\ exitCode' = SummaryCode(CHECKS_FAILED, CHECKS_WARNING)
    /\ step' = "summary"
    /\ UNCHANGED <<CHECKS_PASSED, CHECKS_FAILED, CHECKS_WARNING, handlers, toggle, page>>

\* ------------------------------------------- scripts/toggle-shared-key.sh
\* allowSharedKeyAccess of the storage account: "true", "false", or "null" for
\* an account on which it was never set (scripts/setup-azure.sh creates the
\* account without it); Azure allows shared keys unless the value is false.
Settings == {"true", "false", "null"}
Allowed(setting) == setting # "false"

\* --query "allowSharedKeyAccess" -o tsv: a value that is not set prints as the
\* empty string (or as None): in no case as true.
Tsv(setting) == IF setting = "null" THEN "" ELSE setting

\* What the user types at `read -r RESPONSE`.
Answers == {"y", "Y", "n", "yes", ""}

\* [[ "$RESPONSE" =~ ^[Yy]$ ]]
Confirms(response) == response \in {"y", "Y"}

ToggleIdle(setting, runs) ==
    [pc |-> "show", allowSharedKeyAccess |-> setting, CURRENT_STATUS |-> "",
     RESPONSE |-> "", before |-> setting, runs |-> runs]

\* CURRENT_STATUS=$(az storage account show ... -o tsv); under set -e a failure
\* of az ends the script.
ToggleShow ==
    /\ toggle.pc = "show"
    /\ \/ toggle' = [toggle EXCEPT !.pc = "read",
                        !.CURRENT_STATUS = Tsv(toggle.allowSharedKeyAccess),
                        !.before = toggle.allowSharedKeyAccess]
       \/ toggle' = [toggle EXCEPT !.pc = "errexit"]
    /\ UNCHANGED <<handlers, script, page>>

\* The prompt of the branch taken, and read -r RESPONSE.
ToggleRead ==
    /\ toggle.pc = "read"
    /\ \E a \in Answers :
          toggle' = [toggle EXCEPT !.RESPONSE = a,
                        !.pc = IF Confirms(a) THEN "update" ELSE "done"]
    /\ UNCHANGED <<handlers, script, page>>

\* --allow-shared-key-access false in the branch of CURRENT_STATUS == "true",
\* --allow-shared-key-access true in the other branch.
NewSetting(status) == IF status = "true" THEN "false" ELSE "true"

\* az storage account update --allow-shared-key-access ...; under set -e a
\* failure of az ends the script.
ToggleUpdate ==
    /\ toggle.pc = "update"
    /\ \/ toggle' = [toggle EXCEPT !.pc = "done",
                        !.allowSharedKeyAccess = NewSetting(toggle.CURRENT_STATUS)]
       \/ toggle' = [toggle EXCEPT !.pc = "errexit"]
    /\ UNCHANGED <<handlers, script, page>>

\* The script is run again.
ToggleAgain ==
    /\ toggle.pc \in {"done", "errexit"}
    /\ toggle.runs < MaxRuns
    /\ toggle' = ToggleIdle(toggle.allowSharedKeyAccess, toggle.runs + 1)
    /\ UNCHANGED <<handlers, script, page>>

\* ------------------------------------------------------ the dashboard page
\* The two pages: "hello" is the page with createHelloWorldFlight, "sample"
\* is index.tsx with createSampleFlight and the Refresh button.
Variants == {"hello", "sample"}

\* What a fetch ends in: a 2xx response, a response with an error body, or a
\* rejection (of fetch, or of res.json()).
Results == {"ok", "error", "throw"}

\* useState<string | null>(null)
Null == "null"

\* The page before its effect has run: the initial values of useState. The
\* flights are written as the number of records of the list; `server` is the
\* number of records the API would list, loads and creates are the calls of
\* loadFlights and of the create function, in the order in which they started.
PageIdle ==
    [pc |-> "off", variant |-> "hello", flights |-> 0, loading |-> TRUE,
     error |-> Null, creating |-> FALSE, loads |-> <<>>, creates |-> <<>>,
     server |-> 0, clicks |-> 0]

\* The calls that have started and not finished.
Running(calls) == {i \in DOMAIN calls : calls[i].pc # "done"}

\* loadFlights up to its fetch: setLoading(true), in index.tsx setError(null)
\* too. `by` is the create that awaits this load, 0 if none; `overlaps` are
\* the loads running when this one starts.
StartLoad(p, origin, by) ==
    [p EXCEPT !.loading = TRUE,
              !.error = IF p.variant = "sample" THEN Null ELSE @,
              !.loads = Append(@, [origin |-> origin, by |-> by, pc |-> "sent",
                                   result |-> "", data |-> 0,
                                   overlaps |-> Running(p.loads)])]

\* useEffect(() => { loadFlights(); }, [])
Mount ==
    /\ page.pc = "off"
    /\ page' = StartLoad([page EXCEPT !.pc = "on"], "mount", 0)
    /\ UNCHANGED <<handlers, script, toggle>>

\* The API answers the list request with the records it has then, or fails.
ServeLoad(i) ==
    /\ i \in DOMAIN page.loads
    /\ page.loads[i].pc = "sent"
    /\ \E result \in Results :
          page' = [page EXCEPT !.loads[i].pc = "served",
                       !.loads[i].result = result,
                       !.loads[i].data = IF result = "ok" THEN page.server ELSE 0]
    /\ UNCHANGED <<handlers, script, toggle>>

\* err.message / data.error of a failed request
Message(result) ==
    IF result = "error" THEN "Storage not configured" ELSE "Failed to fetch"

\* Mutant of AfterLoad: setLoading(false) follows setFlights in the try block.
AfterLoadNoFinally(p, result, data) ==
    IF result = "ok"
    THEN [p EXCEPT !.flights = data, !.loading = FALSE,
                   !.error = IF p.variant = "hello" THEN Null ELSE @]
    ELSE [p EXCEPT !.error = Message(result)]

\* loadFlights from the response on: setFlights, and in the "hello" page
\* setError(null); or setError(message); finally setLoading(false).
AfterLoad(p, result, data) ==
    IF result = "ok"
    THEN [p EXCEPT !.flights = data, !.loading = FALSE,
                   !.error = IF p.variant = "hello" THEN Null ELSE @]
    ELSE [p EXCEPT !.error = Message(result), !.loading = FALSE]

\* The finally block of the create function: setCreating(false).
EndCreate(p, c) == [p EXCEPT !.creating = FALSE, !.creates[c].pc = "done"]

\* The response of a list request arrives; a create that awaits the load goes
\* on to its finally block.
LoadArrives(i) ==
    /\ i \in DOMAIN page.loads
    /\ page.loads[i].pc = "served"
    /\ LET load == page.loads[i]
           p == AfterLoad([page EXCEPT !.loads[i].pc = "done"], load.result, load.data)
       IN page' = IF load.by = 0 THEN p ELSE EndCreate(p, load.by)
    /\ UNCHANGED <<handlers, script, toggle>>

\* Mutant of CanCreate: the button is never disabled.
CanCreateAlways(p) == TRUE

\* <button onClick={create...} disabled={creating}>
CanCreate(p) == ~p.creating

\* A click on the create button: setCreating(true) and the POST.
ClickCreate ==
    /\ page.pc = "on"
    /\ page.clicks < MaxClicks
    /\ CanCreate(page)
    /\ page' = [page EXCEPT !.creating = TRUE, !.clicks = @ + 1,
                    !.creates = Append(@, [pc |-> "sent", result |-> ""])]
    /\ UNCHANGED <<handlers, script, toggle>>

\* The API answers the create request: it has stored the record, or failed.
ServeCreate(c) ==
    /\ c \in DOMAIN page.creates
    /\ page.creates[c].pc = "sent"
    /\ \E result \in Results :
          page' = [page EXCEPT !.creates[c].pc = "served",
                       !.creates[c].result = result,
                       !.server = IF result = "ok" THEN @ + 1 ELSE @]
    /\ UNCHANGED <<handlers, script, toggle>>

\* The response of a create request arrives: on success await loadFlights();
\* on failure alert(...) in the "hello" page, setError(...) in index.tsx, and
\* the finally block.
CreateArrives(c) ==
    /\ c \in DOMAIN page.creates
    /\ page.creates[c].pc = "served"
    /\ LET result == page.creates[c].result
       IN page' =
            IF result = "ok"
            THEN StartLoad([page EXCEPT !.creates[c].pc = "loading"], "create", c)
            ELSE EndCreate([page EXCEPT !.error = IF page.variant = "sample"
                                                  THEN Message(result)
                                                  ELSE @], c)
    /\ UNCHANGED <<handlers, script, toggle>>

\* <button onClick={loadFlights} disabled={loading}> of index.tsx
ClickRefresh ==
    /\ page.pc = "on"
    /\ page.variant = "sample"
    /\ page.clicks < MaxClicks
    /\ ~page.loading
    /\ page' = StartLoad([page EXCEPT !.clicks = @ + 1], "refresh", 0)
    /\ UNCHANGED <<handlers, script, toggle>>

\* ------------------------------------------------------------- specification
\* The store of a fresh account, and a store that createNext requests of the
\* day before (at times 0 and 1) and a createFn request have written to.
InitStores ==
    {<<>>,
     [n \in {PartName(0, "e2", 0), PartName(0, "e2", 1), FlatName("e1")} |->
        IF n = PartName(0, "e2", 0)
            THEN [content |-> ContentOf("createNext", F4), lastModified |-> 0]
        ELSE IF n = PartName(0, "e2", 1)
            THEN [content |-> ContentOf("createNext", F2), lastModified |-> 1]
        ELSE [content |-> ContentOf("createFnKey", F1), lastModified |-> 1]]}

\* The settings: both set, the key missing, or both missing (a missing account
\* name with the key set is to every handler as both missing).
Init ==
    /\ env \in {e \in [account : BOOLEAN, key : BOOLEAN] : e.key => e.account}
    /\ container \in BOOLEAN
    /\ blobs \in InitStores
    /\ blobs # <<>> => container
    /\ clock = DayLen
    /\ ops = 0
    /\ version = 0
    /\ req = [r \in Slots |-> Idle]
    /\ ScriptInit
    /\ toggle = ToggleIdle("null", 1)
    /\ page = PageIdle

Next ==
    \/ \E r \in Slots : StartCreate(r)
    \/ \E r \in Slots : CreateIfNotExists(r)
    \/ \E r \in Slots : Upload(r)
    \/ \E r \in Slots : StartList(r)
    \/ \E r \in Slots : ListBlobs(r)
    \/ \E r \in Slots : Download(r)
    \/ \E r \in Slots : StartQuery(r)
    \/ \E r \in Slots : Query(r)
    \/ AdminUpload
    \/ AdminDelete
    \/ Tick

Spec == Init /\ [][Next]_vars

\* One run of verify-azure-setup.sh against an account whose container exists
\* or not; no request is served meanwhile.
VerifyInit ==
    /\ env = [account |-> TRUE, key |-> TRUE]
    /\ container \in BOOLEAN
    /\ blobs = <<>>
    /\ clock = DayLen
    /\ ops = 0
    /\ version = 0
    /\ req = [r \in Slots |-> Idle]
    /\ ScriptInit
    /\ toggle = ToggleIdle("null", 1)
    /\ page = PageIdle

VerifyNext ==
    \/ check_azure_cli
    \/ check_azure_login
    \/ check_resource_group
    \/ check_storage_account
    \/ check_storage_container
    \/ check_static_web_app
    \/ check_environment_variables
    \/ check_application_insights
    \/ check_connectivity
    \/ print_summary

VerifySpec == VerifyInit /\ [][VerifyNext]_vars

\* Runs of toggle-shared-key.sh on an account with any value of the setting.
ToggleInit ==
    /\ env = [account |-> TRUE, key |-> TRUE]
    /\ container = TRUE
    /\ blobs = <<>>
    /\ clock = DayLen
    /\ ops = 0
    /\ version = 0
    /\ req = [r \in Slots |-> Idle]
    /\ ScriptInit
    /\ \E setting \in Settings : toggle = ToggleIdle(setting, 1)
    /\ page = PageIdle

ToggleNext ==
    \/ ToggleShow
    \/ ToggleRead
    \/ ToggleUpdate
    \/ ToggleAgain

ToggleSpec == ToggleInit /\ [][ToggleNext]_vars

\* One of the two pages, opened in a browser; the API has one record or none.
PageInit ==
    /\ env = [account |-> TRUE, key |-> TRUE]
    /\ container = TRUE
    /\ blobs = <<>>
    /\ clock = DayLen
    /\ ops = 0
    /\ version = 0
    /\ req = [r \in Slots |-> Idle]
    /\ ScriptInit
    /\ toggle = ToggleIdle("null", 1)
    /\ \E v \in Variants, n \in {0, 1} :
          page = [PageIdle EXCEPT !.variant = v, !.server = n]

\* The calls the page can have made.
Calls == 1..(MaxClicks + 1)

PageNext ==
    \/ Mount
    \/ \E i \in Calls : ServeLoad(i)
    \/ \E i \in Calls : LoadArrives(i)
    \/ ClickCreate
    \/ \E c \in Calls : ServeCreate(c)
    \/ \E c \in Calls : CreateArrives(c)
    \/ ClickRefresh

PageSpec == PageInit /\ [][PageNext]_vars

\* Every fetch settles, and the continuation that awaits it runs.
PageLive ==
    /\ PageSpec
    /\ WF_vars(Mount)
    /\ \A i \in Calls :
          /\ WF_vars(ServeLoad(i)) /\ WF_vars(LoadArrives(i))
          /\ WF_vars(ServeCreate(i)) /\ WF_vars(CreateArrives(i))

\* ------------------------------------------------------------------- claims
IsDone(r) == req[r].pc = "done"
IsCreate(r) == req[r].handler \in CreateHandlers
Status(r) == req[r].res.status
Body(r) == req[r].res.body

\* The record of the request carries no flightId or no status.
LacksIdOrStatus(r) ==
    /\ req[r].hasBody
    /\ req[r].flight.flightId = Undefined \/ req[r].flight.status = Undefined

\* C1, as stated: a POST of a record without flightId or without status is
\* answered 400 'Missing required fields' and makes no store call, whatever the
\* configuration.
C1_Original ==
    \A r \in Slots :
        IsDone(r) /\ IsCreate(r) /\ req[r].method = "POST" /\ LacksIdOrStatus(r)
        => /\ Status(r) = 400
           /\ Body(r) = ErrorBody("Missing required fields")
           /\ req[r].calls = 0

\* C1, amended: a POST of a record without flightId or without status makes no
\* store call and is answered with an error: 400 'Missing required fields'
\* when the storage settings the handler checks are set (create.ts checks
\* none), 500 with the configuration error when they are not.
C1_Amended ==
    \A r \in Slots :
        IsDone(r) /\ IsCreate(r) /\ req[r].method = "POST" /\ LacksIdOrStatus(r)
        => /\ req[r].calls = 0
           /\ IF ConfigMissing(req[r].handler)
              THEN Status(r) = 500 /\ Body(r) = ErrorBody(ConfigError(req[r].handler))
              ELSE Status(r) = 400 /\ Body(r) = ErrorBody("Missing required fields")

C1_Witness ==
    \E r \in Slots :
        /\ IsDone(r) /\ IsCreate(r) /\ req[r].method = "POST" /\ LacksIdOrStatus(r)
        /\ Status(r) = 400
        /\ req[r].calls = 0

\* The list request answered 200 from the store as it is now: nothing changed
\* the store between the start of the request and this state.
FreshList(l) ==
    /\ IsDone(l)
    /\ req[l].handler = "listNext"
    /\ Status(l) = 200
    /\ req[l].clean
    /\ req[l].v0 = version

\* The create request was answered 201 and the blob it wrote is in the store
\* as the request left it.
StoredCreate(c) ==
    /\ IsDone(c)
    /\ req[c].handler = "createNext"
    /\ Status(c) = 201
    /\ Body(c).blobName \in DOMAIN blobs
    /\ blobs[Body(c).blobName].content = req[c].content

HasId(flights, id) == \E i \in 1..Len(flights) : flights[i].flightId = id

IsOwnQuery(r) ==
    /\ IsDone(r)
    /\ req[r].handler = "queryRLS"
    /\ Status(r) = 200
    /\ "flight-tracker-admins" \notin TeamsOf(req[r].user)
    /\ "flight-tracker-contributors" \notin TeamsOf(req[r].user)

\* C3: a query of a caller whose scope is 'own' returns no record whose
\* pilot.githubLogin differs from the caller's login.
C3_OwnScope ==
    \A r \in Slots :
        IsOwnQuery(r)
        => \A i \in 1..Len(Body(r).rows) : Body(r).rows[i].pilot = req[r].user

\* An own-scope query that returned a record while the rows it read had
\* another owner's record among them.
C3_Witness ==
    \E r \in Slots :
        /\ IsOwnQuery(r)
        /\ Len(Body(r).rows) >= 1
        /\ \E i \in 1..Len(req[r].flights) : req[r].flights[i].pilot = "bob"

\* The step is the upload of slot r, and it succeeded.
Uploaded(r) ==
    /\ req[r].pc = "upload"
    /\ req'[r].pc = "done"
    /\ req'[r].res.status \in {200, 201}

\* C4, as stated: no create request changes or replaces the content stored by
\* an earlier one.
C4_Immutable ==
    [][\A r \in Slots :
          Uploaded(r)
          => \A n \in DOMAIN blobs :
                 n \in DOMAIN blobs' /\ blobs'[n].content = blobs[n].content]_vars

\* C5, as stated: a successful append creates the object with exactly the new
\* line, or leaves it as its previous content followed by the new line.
C5_Append ==
    [][\A r \in Slots :
          Uploaded(r)
          => LET n == req[r].blobName
                 line == Stringify(req[r].flight) \o <<LF>>
             IN /\ n \in DOMAIN blobs'
                /\ blobs'[n].content =
                      IF n \in DOMAIN blobs THEN blobs[n].content \o line ELSE line]_vars

\* A list.ts request answered 200, every record it returns carrying a
\* createdAt that Date can read.
IsDatedList(l) ==
    /\ IsDone(l)
    /\ req[l].handler = "listNext"
    /\ Status(l) = 200
    /\ \A i \in 1..Len(Body(l).flights) : Body(l).flights[i].createdAt \in {T10, T11}

Descending(flights) ==
    \A i, j \in 1..Len(flights) :
        i < j => getTime(flights[i].createdAt) >= getTime(flights[j].createdAt)

\* The records with this createdAt, in the order of the sequence.
At(flights, t) == SelectSeq(flights, LAMBDA f : f.createdAt = t)

\* C6, as stated: the records returned are in descending order of createdAt,
\* and of two records with equal createdAt the one with the smaller id comes
\* first.
C6_Original ==
    \A l \in Slots :
        IsDatedList(l)
        => LET fs == Body(l).flights
           IN /\ Descending(fs)
              /\ \A i, j \in 1..Len(fs) :
                    i < j /\ fs[i].createdAt = fs[j].createdAt
                    => IdRank(fs[i].flightId) <= IdRank(fs[j].flightId)

\* C6, amended: the records returned are in descending order of createdAt, and
\* records with equal createdAt stay in the order in which they were read
\* (blobs by name, lines from first to last).
C6_Amended ==
    \A l \in Slots :
        IsDatedList(l)
        => /\ Descending(Body(l).flights)
           /\ \A t \in {T10, T11} : At(Body(l).flights, t) = At(req[l].flights, t)

\* The scenario of the spec with a tie added: e2 of 11:00 is read after the
\* 10:00 records and returned first; the 10:00 records e2 and e1 keep the order
\* of their blobs.
C6_Witness ==
    \E l \in Slots :
        /\ IsDatedList(l)
        /\ req[l].flights = <<F4, F2, F1>>
        /\ Body(l).flights = <<F2, F4, F1>>

\* The tokens of this kind in the blobs list.ts reads.
RECURSIVE CountIn(_, _)
CountIn(text, tok) ==
    IF text = <<>> THEN 0
    ELSE (IF Head(text) = tok THEN 1 ELSE 0) + CountIn(Tail(text), tok)
RECURSIVE CountStored(_, _)
CountStored(names, tok) ==
    IF names = {} THEN 0
    ELSE LET n == CHOOSE x \in names : TRUE
         IN CountIn(blobs[n].content, tok) + CountStored(names \ {n}, tok)
\* Lines that are JSON objects, and lines that are no JSON, under flights/.
ValidStored == CountStored({n \in DOMAIN blobs : StartsWithFlights(n)}, LBrace)
MalformedStored == CountStored({n \in DOMAIN blobs : StartsWithFlights(n)}, Garbage)

C8_MissingTolerated ==
    \A l \in Slots :
        IsDone(l) /\ req[l].handler = "listNext" /\ req[l].err = "BlobNotFound"
        => Status(l) = 200

IsStoreHandler(r) == req[r].handler \in CreateHandlers \cup ListHandlers

\* C9: once a store call of a create or list request has failed, the handler
\* has answered: it makes no further store call (a create whose
\* createIfNotExists failed has made that one call and no upload), and the
\* answer is 500 with the message of the error.
C9_FailurePropagates ==
    \A r \in Slots :
        IsStoreHandler(r) /\ req[r].err # ""
        => /\ IsDone(r)
           /\ Status(r) = 500
           /\ Body(r).error = req[r].err
           /\ IsCreate(r) /\ req[r].handler # "createNext" /\ req[r].blobName = NoName
              => req[r].calls = 1

C9_Witness ==
    \E r, l \in Slots :
        /\ IsCreate(r) /\ req[r].err = "StoreUnavailable" /\ Status(r) = 500
        /\ req[l].handler \in ListHandlers /\ req[l].err # "" /\ Status(l) = 500

\* Two answered list requests of the same handler and method that read the
\* same, unchanged store.
SameRead(a, b) ==
    /\ a # b
    /\ IsDone(a) /\ IsDone(b)
    /\ req[a].handler \in ListHandlers
    /\ req[a].handler = req[b].handler
    /\ req[a].method = req[b].method
    /\ Status(a) = 200 /\ Status(b) = 200
    /\ req[a].clean /\ req[b].clean
    /\ req[a].v0 = req[b].v0

FailedCreate(r) == IsDone(r) /\ IsCreate(r) /\ Status(r) \notin {200, 201}

\* C11, as stated: when a create request ends with an error response, the
\* store (the container and the blobs) is as it was before the request. Only
\* a successful upload writes a blob, and it ends the request with a success
\* response, so what is left to hold is that the request has not created the
\* container.
C11_AllOrNothing ==
    \A r \in Slots : FailedCreate(r) => ~req[r].made

\* A create request that was answered with a success response.
OkCreate(r) == IsDone(r) /\ IsCreate(r) /\ Status(r) \in {200, 201}

\* C12: the call that completes its write holds the object from then on: after
\* a successful upload the object has the content of that call, whatever a
\* call that completed before had written there, so that after two calls on
\* the same object the content is that of the call that wrote last and the
\* record of the other is not in the object, both having answered success.
C12_LastWriterWins ==
    [][\A r \in Slots :
          Uploaded(r)
          => LET n == req[r].blobName
             IN /\ n \in DOMAIN blobs'
                /\ blobs'[n].content = req[r].content
                /\ req'[r].res.body.blobName = n
                /\ \A q \in Slots \ {r} :
                       OkCreate(q) /\ req[q].blobName = n
                       /\ req[q].content # req[r].content
                       => blobs'[n].content # req[q].content]_vars

\* Two calls that ran concurrently on the same object and both answered
\* success: b wrote after a had written, the object holds the record of b,
\* and no blob of the store holds the record of a.
C12_Witness ==
    \E a, b \in Slots :
        /\ a # b
        /\ OkCreate(a) /\ OkCreate(b)
        /\ req[a].blobName = req[b].blobName
        /\ req[a].content # req[b].content
        /\ req[b].raced
        /\ req[b].blobName \in DOMAIN blobs
        /\ blobs[req[b].blobName].content = req[b].content
        /\ \A n \in DOMAIN blobs : blobs[n].content # req[a].content

\* The calendar day (UTC) of a createdAt that Date can read.
UTCDate(at) == IF at \in {T10, T11} THEN "2024-11-12" ELSE Undefined

\* The records of a blob hold one with this calendar day of createdAt.
HoldsDay(name, date) ==
    \E i \in 1..Len(ParsedOf(blobs[name].content)) :
        UTCDate(ParsedOf(blobs[name].content)[i].createdAt) = date

\* C13, as stated: the year/month/day of the object a record is stored in is
\* a function of the record's createdAt: a record that create.ts stored lies in
\* the same partition as every stored record with the same createdAt day.
C13_KeyFromCreatedAt ==
    \A c \in Slots : \A n \in DOMAIN blobs :
        /\ StoredCreate(c)
        /\ n.kind = "part"
        /\ UTCDate(req[c].flight.createdAt) # Undefined
        /\ HoldsDay(n, UTCDate(req[c].flight.createdAt))
        => n.day = Body(c).blobName.day

\* A query of a caller whose scope is 'team', answered 200 with fewer rows
\* than the LIMIT (so that no row was cut off).
IsTeamQuery(r) ==
    /\ IsDone(r)
    /\ req[r].handler = "queryRLS"
    /\ Status(r) = 200
    /\ "flight-tracker-admins" \notin TeamsOf(req[r].user)
    /\ "flight-tracker-contributors" \in TeamsOf(req[r].user)
    /\ Len(Body(r).rows) < Limit

\* The record is the caller's own, or of one of the caller's teams.
OwnOrTeam(login, row) == row.pilot = login \/ row.teamId \in TeamsOf(login)

Returned(r, row) == \E i \in 1..Len(Body(r).rows) : Body(r).rows[i] = Select(row)

\* C14, as stated: a query with scope 'team' returns a record it read if and
\* only if the record is the caller's own or carries a team of the caller.
C14_TeamScope ==
    \A r \in Slots :
        IsTeamQuery(r)
        => \A i \in 1..Len(req[r].flights) :
               Returned(r, req[r].flights[i])
               <=> OwnOrTeam(req[r].user, req[r].flights[i])

\* A read request that was answered with records.
IsRead(r) == IsDone(r) /\ req[r].handler \in {"listNext", "queryRLS"} /\ Status(r) = 200
Records(r) == IF req[r].handler = "listNext" THEN Body(r).flights ELSE Body(r).rows

\* C15, as stated: no read returns more records than the cap.
C15_Capped ==
    \A r \in Slots : IsRead(r) => Len(Records(r)) <= Limit

\* The records a read of the whole store yields: the lines under flights/ that
\* are JSON objects, parsed.
ReadAll ==
    LET good == SelectSeq(ReadJson(listBlobsFlatPrefix), Parses)
    IN {Parse(good[i]) : i \in 1..Len(good)}

\* C16, as stated: when two create requests for records with the same id have
\* both answered success, a read of the whole store returns both records.
C16_DuplicatesReturned ==
    \A a, b \in Slots :
        /\ a # b
        /\ OkCreate(a) /\ OkCreate(b)
        /\ req[a].flight.flightId = req[b].flight.flightId
        /\ req[a].flight # req[b].flight
        => req[a].flight \in ReadAll /\ req[b].flight \in ReadAll

C18_OneCompactLine ==
    \A c \in Slots :
        OkCreate(c)
        => LET text == req[c].content
           IN /\ text # <<>>
              /\ text[Len(text)] = LF
              /\ CountIn(text, LF) = 1
              /\ ParsedOf(text) = <<req[c].flight>>

\* The object the create request wrote still holds what it wrote.
Holds(c) ==
    /\ OkCreate(c)
    /\ req[c].blobName \in DOMAIN blobs
    /\ blobs[req[c].blobName].content = req[c].content

\* C19, as stated: the status of every record that a create request stored is
\* one of the lifecycle states of FlightStatus.
C19_StatusInEnum ==
    \A c \in Slots : Holds(c) => req[c].flight.status \in FlightStatus

\* C20: once the checks have run, the exit code of verify-azure-setup.sh is 1
\* if and only if CHECKS_FAILED is greater than zero, and 0 otherwise (all
\* checks passed, or warnings only); the same holds when a prerequisite check
\* ends the script with `exit 1`; and whenever the script has exited with code
\* 0, no failure was recorded.
C20_ExitCode ==
    /\ step \in {"summary", "exit"}
       => /\ exitCode \in {0, 1}
          /\ exitCode = 1 <=> CHECKS_FAILED > 0
    /\ exitCode = 0 => step = "summary" /\ CHECKS_FAILED = 0

\* The script ran all checks, recorded warnings and no failure, and exited
\* with code 0.
C20_Witness ==
    /\ step = "summary"
    /\ exitCode = 0
    /\ CHECKS_FAILED = 0
    /\ CHECKS_WARNING > 0
    /\ CHECKS_PASSED > 0

\* A request of an Azure AD variant that has built its client.
HasClient(r) ==
    req[r].handler \in {"createFnAad", "listFnAad"} /\ req[r].auth # ""

\* C21, as stated: a handler with the Azure AD code uses Azure AD first; the
\* shared key is the fallback. (No request uses both: auth is one method.)
C21_AadFirst ==
    \A r \in Slots : HasClient(r) => req[r].auth = "aad"

\* C22, as stated: after a run in which the user confirmed, shared key access
\* is the opposite of what it was when the script read it.
C22_Negated ==
    toggle.pc = "done" /\ Confirms(toggle.RESPONSE)
    => Allowed(toggle.allowSharedKeyAccess) # Allowed(toggle.before)

\* A request to flights-create (either variant) that is awaiting a store call.
IsFnCreate(r) == req[r].handler \in {"createFnKey", "createFnAad"}
Awaiting(r) == req[r].pc \in {"createIfNotExists", "upload"}

\* C23: an invocation of flights-create has no response until it ends and one
\* of 200, 400, 405, 500 when it has ended; it makes at most two store calls
\* and is never stuck between them; 200 is the answer only when both store
\* calls succeeded, and never that of a request without body.
C23_OneAnswer ==
    \A r \in Slots : IsFnCreate(r) =>
        /\ IsDone(r) => Status(r) \in {200, 400, 405, 500}
        /\ ~IsDone(r) => req[r].res = NoRes
        /\ Awaiting(r) =>
              /\ req[r].calls = IF req[r].pc = "upload" THEN 1 ELSE 0
              /\ ENABLED (CreateIfNotExists(r) \/ Upload(r))
        /\ IsDone(r) /\ Status(r) = 200 =>
              /\ req[r].calls = 2 /\ req[r].err = ""
              /\ req[r].hasBody /\ req[r].method = "POST"
              /\ Body(r) = [success |-> TRUE, blobName |-> FlatName(req[r].flight.flightId)]

\* A POST without body has been answered by the catch block, and another
\* invocation has answered 200.
C23_Witness ==
    \E r, q \in Slots :
        /\ IsFnCreate(r) /\ IsDone(r) /\ req[r].method = "POST" /\ ~req[r].hasBody
        /\ Status(r) = 500 /\ Body(r).error = "Cannot read properties of undefined"
        /\ IsFnCreate(q) /\ IsDone(q) /\ Status(q) = 200

\* The settings the handler of this request needs are not all set.
Unconfigured(r) == ConfigMissing(req[r].handler)

\* C24: a request to a create handler with another method than POST is
\* answered 405 'Method not allowed', whatever the configuration and the body
\* are, and has made no store call and built no client.
C24_MethodFirst ==
    \A r \in Slots : IsCreate(r) /\ IsDone(r) /\ req[r].method # "POST" =>
        /\ req[r].res = Response(405, ErrorBody("Method not allowed"))
        /\ req[r].calls = 0 /\ req[r].auth = "" /\ req[r].blobName = NoName

\* A GET without body to flights-create has been answered while the storage
\* settings are missing.
C24_Witness ==
    \E r \in Slots :
        /\ IsFnCreate(r) /\ IsDone(r) /\ req[r].method = "GET" /\ ~req[r].hasBody
        /\ Unconfigured(r) /\ Status(r) = 405

\* A request to flights-create or flights-list (env does not change).
IsFn(r) == req[r].handler \in {"createFnKey", "createFnAad", "listFnAad", "listFnKey"}

\* C25, as stated: every request to flights-create or flights-list made while
\* a required setting is unset is answered 500 with no store call.
C25_Original ==
    \A r \in Slots : IsFn(r) /\ IsDone(r) /\ Unconfigured(r) =>
        Status(r) = 500 /\ req[r].calls = 0

\* C25, amended: that holds of every request to flights-list and of every
\* POST to flights-create, with the message of the configuration check,
\* whatever the body is.
C25_Amended ==
    \A r \in Slots :
        /\ IsFn(r) /\ IsDone(r) /\ Unconfigured(r)
        /\ IsFnCreate(r) => req[r].method = "POST"
        => /\ req[r].res = Response(500, ErrorBody(ConfigError(req[r].handler)))
           /\ req[r].calls = 0 /\ req[r].auth = ""

\* A POST that lacks a required field, and a POST without body, have been
\* answered by the configuration check; so has a list request.
C25_Witness ==
    \E r, q \in Slots :
        /\ IsFnCreate(r) /\ IsDone(r) /\ Unconfigured(r) /\ req[r].method = "POST"
        /\ ~req[r].hasBody \/ MissingRequired(req[r].flight)
        /\ Status(r) = 500
        /\ req[q].handler \in {"listFnAad", "listFnKey"} /\ IsDone(q)
        /\ Unconfigured(q) /\ Status(q) = 500

\* A request to create.ts that has composed its blob name.
Named(r) == req[r].handler = "createNext" /\ req[r].blobName # NoName

\* C26, as stated: two requests to create.ts have the same blob name only if
\* they carry the same flightId and ran in the same millisecond of the same
\* UTC day.
C26_SameNameSameId ==
    \A r, q \in Slots :
        r # q /\ Named(r) /\ Named(q) /\ req[r].blobName = req[q].blobName
        => /\ req[r].flight.flightId = req[q].flight.flightId
           /\ req[r].now = req[q].now
           /\ UTCDay(req[r].now) = UTCDay(req[q].now)

\* Two loads that both got a list and have both finished, the second started
\* by a create while the first, the load on mount, was running, and no load
\* started after them has finished.
Overlapped(i, j) ==
    /\ i \in DOMAIN page.loads /\ j \in DOMAIN page.loads
    /\ page.loads[i].origin = "mount" /\ page.loads[j].origin = "create"
    /\ i \in page.loads[j].overlaps
    /\ page.loads[i].pc = "done" /\ page.loads[j].pc = "done"
    /\ page.loads[i].result = "ok" /\ page.loads[j].result = "ok"
    /\ \A k \in DOMAIN page.loads : k > j => page.loads[k].pc # "done"

\* C27, as stated: when the load on mount and the load after a create overlap
\* and both have finished, the flights are those of the response to the load
\* after the create.
C27_LaterLoadWins ==
    \A i, j \in Calls : Overlapped(i, j) => page.flights = page.loads[j].data

\* C28: at most one create request of the page is running at any time, and
\* creating is true exactly while one is: the button is disabled from
\* setCreating(true) to setCreating(false).
C28_OneCreate ==
    /\ Cardinality(Running(page.creates)) <= 1
    /\ page.creating <=> Running(page.creates) # {}
    /\ ENABLED ClickCreate => Running(page.creates) = {}

\* A second create has started, after the first has finished.
C28_Witness ==
    /\ Len(page.creates) = 2
    /\ page.creates[1].pc = "done" /\ page.creates[2].pc # "done"
    /\ page.creating

\* A load or a create finishes in this step.
LoadEnds(i) ==
    /\ i \in DOMAIN page.loads
    /\ page.loads[i].pc = "served" /\ page'.loads[i].pc = "done"
CreateEnds(c) ==
    /\ c \in DOMAIN page.creates
    /\ page.creates[c].pc # "done" /\ page'.creates[c].pc = "done"
LoadStarts == Len(page'.loads) > Len(page.loads)

\* Every call that has started finishes, whatever its request ends in.
Finished(calls, i) == i \in DOMAIN calls /\ calls[i].pc = "done"
AllFinish ==
    /\ \A i \in Calls : (i \in DOMAIN page.loads) ~> Finished(page.loads, i)
    /\ \A c \in Calls : (c \in DOMAIN page.creates) ~> Finished(page.creates, c)

\* The step in which a call finishes sets its flag to false.
FlagsReset ==
    /\ \A i \in Calls : LoadEnds(i) => ~page'.loading
    /\ \A c \in Calls : CreateEnds(c) => ~page'.creating

\* A load that failed leaves error set.
ErrorSet ==
    \A i \in Calls : LoadEnds(i) /\ page.loads[i].result # "ok" => page'.error # Null

\* C29, as stated: every started create sets creating to false in the end
\* and every started load sets loading to false, whatever the request ends
\* in; when a load that succeeded finishes error is null, when a load that
\* failed finishes error is set.
C29_Original ==
    /\ AllFinish
    /\ [][/\ FlagsReset
          /\ ErrorSet
          /\ \A i \in Calls : LoadEnds(i) /\ page.loads[i].result = "ok"
                => page'.error = Null]_vars

\* C29, amended: as stated, but in index.tsx error is set to null when a load
\* starts, and a load that succeeded leaves error as it is when it finishes.
C29_Amended ==
    /\ AllFinish
    /\ [][/\ FlagsReset
          /\ ErrorSet
          /\ \A i \in Calls : LoadEnds(i) /\ page.loads[i].result = "ok"
                => page'.error = IF page.variant = "hello" THEN Null ELSE page.error
          /\ LoadStarts /\ page.variant = "sample" => page'.error = Null]_vars

\* In index.tsx a load has succeeded and finished, a create has failed and
\* finished, and the error of the create is still shown.
C29_Witness ==
    /\ page.variant = "sample"
    /\ \E i \in DOMAIN page.loads :
          page.loads[i].pc = "done" /\ page.loads[i].result = "ok"
    /\ \E c \in DOMAIN page.creates :
          page.creates[c].pc = "done" /\ page.creates[c].result = "throw"
    /\ Running(page.loads) = {} /\ ~page.loading /\ ~page.creating
    /\ page.error # Null

=============================================================================
